---- MODULE Spec2Model ----
(***************************************************************************)
(* Model of the two scripts of the repository:                             *)
(*   scripts/benchmark-search-methods.py    (measurement pipeline)         *)
(*   scripts/visualize-benchmark-results.py (reporting pipeline)           *)
(*                                                                         *)
(* Units.  Times are whole seconds.  Money is counted in units of          *)
(* 1e-5 USD, so that calculate_cost is exact on integers.  A text is a     *)
(* sequence of tokens and count_tokens is its length.  A percentage is a   *)
(* rational [n, d] (numerator, denominator); d = 0 never occurs because    *)
(* a division by zero raises ZeroDivisionError in Python.                  *)
(***************************************************************************)
EXTENDS Integers, Sequences, FiniteSets, TLC

VARIABLES
    script,        \* what this run executes: "benchmark" (the script's main),
                   \* "visualize" (the other script's main), "single_query"
                   \* (run_benchmark and generate_summary on a one-query list)
                   \* or "chart_routines" (the four chart routines called on
                   \* a loaded result set, in any order)
    args,          \* benchmark: parsed command line (recommend, repo_path, quick)
    rg_installed,  \* environment: does `rg --version` succeed
    pc,            \* benchmark: position in main()
    reported,      \* benchmark: which error/usage message main() printed
    probed,        \* benchmark: the version probe subprocess was run
    queries,       \* benchmark: the list handed to run_benchmark
    results,       \* benchmark: SearchBenchmark.results
    improvements,  \* benchmark: the per-query "improvements" records printed
    rgCalls,       \* environment: the outcome of the external calls, per query
    disk,          \* the benchmark_results_*.json files in the working directory
    argv,          \* visualize: sys.argv[1:] ("none", "missing" or "saved")
    vpc,           \* visualize: position in main()
    output_dir,    \* visualize: benchmark_visuals/ exists
    loaded,        \* visualize: the value of load_results(results_file)
    charts,        \* visualize: the image files written, in order
    chartImprovements, \* visualize: `improvements` of create_performance_chart
    overall,       \* benchmark: the overall percentages generate_summary printed
    pyplot,        \* visualize: the figures matplotlib.pyplot holds open, the
                   \* last one being the current figure
    chartCalls     \* visualize: the calls of the chart routines so far, each
                   \* with what it returned or raised and the image it saved

vars == <<script, args, rg_installed, pc, reported, probed, queries, results,
          improvements, rgCalls, disk, argv, vpc, output_dir, loaded, charts,
          chartImprovements, overall, pyplot, chartCalls>>

\* What the steps of the benchmark's main() before the batch leave alone
batchVars == <<queries, results, improvements, rgCalls, overall, disk>>

\* What the benchmark script never touches
visVars == <<argv, vpc, output_dir, loaded, charts, chartImprovements,
            pyplot, chartCalls>>

\* What the reporting script never touches
benchVars == <<args, rg_installed, pc, probed, queries, results,
               improvements, rgCalls, overall, disk>>

(***************************************************************************)
(* Bounds of the model.                                                    *)
(***************************************************************************)
\* TEST_QUERIES is modelled by its first CatalogLen entries (the source has 11).
CatalogLen == 6
\* At most MaxFaults external calls of one run time out or raise.
MaxFaults == 1
\* A results file handed to the reporting script holds at most MaxDocLen queries.
MaxDocLen == 2
\* calculate_cost is tabulated for the token counts 0..MaxTokens.
MaxTokens == 40
\* The search output of a one-query run has at most MaxLines lines (or is one
\* of the long outputs around the 50-symbol limit).
MaxLines == 3

(***************************************************************************)
(* Program constants.                                                      *)
(***************************************************************************)
\* TOKEN_PRICE_PER_1K = 0.03 USD = 3000 units of 1e-5 USD.
TOKEN_PRICE_PER_1K == 3000
\* queries = TEST_QUERIES[:5]
QUICK_COUNT == 5
\* subprocess.run(cmd, ..., timeout=30) in run_traditional_grep
TRAD_TIMEOUT == 30
\* subprocess.run(cmd, ..., timeout=10) in run_optimized_search
OPT_TIMEOUT == 10
\* for symbol in symbols[:50]
SYMBOL_LIMIT == 50

(***************************************************************************)
(* Texts, files and the tokenizer.                                         *)
(***************************************************************************)
Min(a, b) == IF a < b THEN a ELSE b

\* A text of n tokens.
Words(n) == [i \in 1..n |-> "w"]

\* A count that is off by one below.
count_tokens_OffByOne(text) == Len(text) - 1

\* count_tokens: len(self.tokenizer.encode(text))
count_tokens(text) == Len(text)

\* The files the search output can name.  gone.py is named by the search
\* output but no longer exists when it is opened; locked.py exists but
\* open() raises.
FilePaths == {"a.py", "b.py", "gone.py", "locked.py"}

\* Path(file_path).exists()
Exists(p) == p # "gone.py"

\* open(full_path, 'r', ...) and f.read() succeed
Readable(p) == p # "locked.py"

\* f.read(): the whole content of the file, as tokens
FileContent(p) == IF p = "a.py" THEN Words(20) ELSE Words(2)

\* The two halves of a sequence of two or more elements.  The loops below
\* run over the first half and then over the second, which keeps the
\* evaluation shallow on long search outputs.
FirstHalf(s) == SubSeq(s, 1, Len(s) \div 2)
SecondHalf(s) == SubSeq(s, Len(s) \div 2 + 1, Len(s))

\* sep.join(parts)
RECURSIVE Join(_, _)
Join(sep, parts) ==
    IF parts = <<>> THEN <<>>
    ELSE IF Len(parts) = 1 THEN parts[1]
    ELSE Join(sep, FirstHalf(parts)) \o sep \o Join(sep, SecondHalf(parts))

(***************************************************************************)
(* The output of `rg --json`: one record per line.                         *)
(*   blank             an empty line                                       *)
(*   garbage           a line that is not valid JSON                       *)
(*   other             a JSON object whose type is not "match" (begin,     *)
(*                     context, end, summary)                              *)
(*   match             a match whose path and lines are given as text      *)
(*   match_bytes_path  a match whose path is given as {"bytes": ...}       *)
(*   match_bytes_lines a match whose lines are given as {"bytes": ...}     *)
(***************************************************************************)
Ln(kind, path, line_number, tok) ==
    [kind |-> kind, path |-> path, line_number |-> line_number, tok |-> tok]

Blank == Ln("blank", "", 0, 0)
Other == Ln("other", "", 0, 0)
Garbage == Ln("garbage", "", 0, 0)

\* result.stdout.strip(): leading and trailing blank lines go
RECURSIVE StripLeft(_)
StripLeft(s) ==
    IF s # <<>> /\ Head(s) = Blank THEN StripLeft(Tail(s)) ELSE s

RECURSIVE StripRight(_)
StripRight(s) ==
    IF s # <<>> /\ s[Len(s)] = Blank THEN StripRight(SubSeq(s, 1, Len(s) - 1))
    ELSE s

\* result.stdout.strip().split('\n'): the empty output gives ['']
output_lines(stdout) ==
    LET stripped == StripRight(StripLeft(stdout))
    IN  IF stripped = <<>> THEN <<Blank>> ELSE stripped

\* The output of the same search run with -A 5 -B 5: the same matches, each
\* followed by a context record.
RECURSIVE WithContext(_)
WithContext(stdout) ==
    IF stdout = <<>> THEN <<>>
    ELSE IF Len(stdout) = 1
    THEN IF stdout[1].kind \in {"match", "match_bytes_path", "match_bytes_lines"}
         THEN <<stdout[1], Other>>
         ELSE stdout
    ELSE WithContext(FirstHalf(stdout)) \o WithContext(SecondHalf(stdout))

(***************************************************************************)
(* SearchBenchmark.calculate_cost                                          *)
(***************************************************************************)
calculate_cost_FloorDiv(tokens) == (tokens \div 1000) * TOKEN_PRICE_PER_1K

calculate_cost(tokens) == (tokens * TOKEN_PRICE_PER_1K) \div 1000

(***************************************************************************)
(* SearchBenchmark.run_traditional_grep                                    *)
(***************************************************************************)
\* f"File: {file_path}\n{content}\n"
FileBlock(p) == <<"File:", p, "\n">> \o FileContent(p) \o <<"\n">>

\* The body without the test `file_path not in files_seen`.
TraditionalStep_NoDedupe(st, line) ==
    IF st.raised \/ line.kind \in {"blank", "garbage", "other"} THEN st
    ELSE IF line.kind = "match_bytes_path" THEN [st EXCEPT !.raised = TRUE]
    ELSE IF Exists(line.path) /\ Readable(line.path)
    THEN [st EXCEPT !.files_seen = @ \cup {line.path},
                    !.total_content = Append(@, FileBlock(line.path))]
    ELSE [st EXCEPT !.files_seen = @ \cup {line.path}]

\* The body of `for line in output_lines`, from the state st of the loop
\* (total_content, files_seen).  raised: an exception other than
\* JSONDecodeError left the body (data["data"]["path"]["text"] raises
\* KeyError when the path is given as bytes), which ends the loop.
TraditionalStep(st, line) ==
    IF st.raised \/ line.kind \in {"blank", "garbage", "other"} THEN st
    ELSE IF line.kind = "match_bytes_path" THEN [st EXCEPT !.raised = TRUE]
    ELSE IF line.path \in st.files_seen THEN st
    ELSE IF Exists(line.path) /\ Readable(line.path)
    THEN [st EXCEPT !.files_seen = @ \cup {line.path},
                    !.total_content = Append(@, FileBlock(line.path))]
    ELSE [st EXCEPT !.files_seen = @ \cup {line.path}]

\* for line in output_lines: ...
RECURSIVE TraditionalLoop(_, _)
TraditionalLoop(lines, st) ==
    IF st.raised \/ lines = <<>> THEN st
    ELSE IF Len(lines) = 1 THEN TraditionalStep(st, lines[1])
    ELSE TraditionalLoop(SecondHalf(lines), TraditionalLoop(FirstHalf(lines), st))

\* The handler `except subprocess.TimeoutExpired`, with the handler missing.
TraditionalTimeout_Unhandled == [raised |-> TRUE, sample |-> "Timeout", time |-> 0, tokens |-> 0]

\* except subprocess.TimeoutExpired: return "Timeout", 30.0, 0
TraditionalTimeout == [raised |-> FALSE, sample |-> "Timeout", time |-> 30, tokens |-> 0]

\* call: how subprocess.run ended ("ok", "timeout", "error"); elapsed: the
\* wall-clock time of a call that returned; stdout: what it printed.
run_traditional_grep(call, elapsed, stdout) ==
    IF call = "timeout" THEN TraditionalTimeout
    ELSE IF call = "error"
    THEN [raised |-> FALSE, sample |-> "Error", time |-> 0, tokens |-> 0]
    ELSE LET scan == TraditionalLoop(output_lines(stdout),
                         [raised |-> FALSE, total_content |-> <<>>,
                          files_seen |-> {}])
             full_text == Join(<<"\n">>, scan.total_content)
         IN  IF scan.raised
             THEN [raised |-> FALSE, sample |-> "Error", time |-> 0, tokens |-> 0]
             ELSE [raised |-> FALSE, sample |-> "text", time |-> elapsed,
                   tokens |-> count_tokens(full_text)]

(***************************************************************************)
(* SearchBenchmark.run_optimized_search                                    *)
(***************************************************************************)
\* The body appending a symbol for every JSON record, match or not.
OptimizedStep_AnyRecord(line, query_type) ==
    IF line.kind \in {"match", "other"}
    THEN <<[file |-> line.path, line |-> line.line_number,
            text |-> Words(line.tok), type |-> query_type]>>
    ELSE <<>>

\* What the body of the loop that collects `symbols` appends for one line;
\* the bare `except: continue` skips every line whose parsing or field
\* access raises.
OptimizedStep(line, query_type) ==
    IF line.kind = "match"
    THEN <<[file |-> line.path, line |-> line.line_number,
            text |-> Words(line.tok), type |-> query_type]>>
    ELSE <<>>

\* symbols = []; for line in output_lines: ...
RECURSIVE OptimizedLoop(_, _)
OptimizedLoop(lines, query_type) ==
    IF lines = <<>> THEN <<>>
    ELSE IF Len(lines) = 1 THEN OptimizedStep(lines[1], query_type)
    ELSE OptimizedLoop(FirstHalf(lines), query_type)
         \o OptimizedLoop(SecondHalf(lines), query_type)

\* f"{symbol['type']} in {symbol['file']}:{symbol['line']}\n{symbol['text'].strip()}"
FormatSymbol(symbol) ==
    <<symbol.type, "in", symbol.file, ":", symbol.line, "\n">> \o symbol.text

\* The loop over all of `symbols`, without the slice.
formatted_results_NoLimit(symbols) ==
    [i \in 1..Len(symbols) |-> FormatSymbol(symbols[i])]

\* for symbol in symbols[:50]: formatted_results.append(...)
formatted_results(symbols) ==
    [i \in 1..Min(SYMBOL_LIMIT, Len(symbols)) |-> FormatSymbol(symbols[i])]

\* The handler returning the other strategy's limit.
OptimizedTimeout_OtherLimit == [raised |-> FALSE, sample |-> "Timeout", time |-> 30, tokens |-> 0]

\* except subprocess.TimeoutExpired: return "Timeout", 10.0, 0
OptimizedTimeout == [raised |-> FALSE, sample |-> "Timeout", time |-> 10, tokens |-> 0]

run_optimized_search(call, elapsed, stdout, query_type) ==
    IF call = "timeout" THEN OptimizedTimeout
    ELSE IF call = "error"
    THEN [raised |-> FALSE, sample |-> "Error", time |-> 0, tokens |-> 0]
    ELSE LET symbols == OptimizedLoop(output_lines(stdout), query_type)
             result_text == Join(<<"\n\n">>, formatted_results(symbols))
         IN  [raised |-> FALSE, sample |-> "text", time |-> elapsed,
              tokens |-> count_tokens(result_text)]

(***************************************************************************)
(* Arithmetic of run_benchmark and generate_summary.                       *)
(***************************************************************************)
Rat(n, d) == [n |-> n, d |-> d]

RECURSIVE Sum(_)
Sum(xs) ==
    IF xs = <<>> THEN 0
    ELSE IF Len(xs) = 1 THEN xs[1]
    ELSE Sum(FirstHalf(xs)) + Sum(SecondHalf(xs))

\* statistics.mean(r[field] for r in measurements), measurements not empty
mean(xs) == Rat(Sum(xs), Len(xs))

Field(measurements, f) == [i \in 1..Len(measurements) |-> measurements[i][f]]

token_reduction_Swapped(trad_tokens, opt_tokens) ==
    IF trad_tokens > 0
    THEN Rat((opt_tokens - trad_tokens) * 100, trad_tokens) ELSE Rat(0, 1)

\* ((trad_tokens - opt_tokens) / trad_tokens * 100) if trad_tokens > 0 else 0
token_reduction(trad_tokens, opt_tokens) ==
    IF trad_tokens > 0
    THEN Rat((trad_tokens - opt_tokens) * 100, trad_tokens) ELSE Rat(0, 1)

\* ((trad_time - opt_time) / trad_time * 100) if trad_time > 0 else 0
time_improvement(trad_time, opt_time) ==
    IF trad_time > 0
    THEN Rat((trad_time - opt_time) * 100, trad_time) ELSE Rat(0, 1)

\* ((avg_before - avg_after) / avg_before * 100), avg_before not zero
overall_reduction(avg_before, avg_after) ==
    Rat((avg_before.n * avg_after.d - avg_after.n * avg_before.d) * 100,
        avg_before.n * avg_after.d)

\* The "traditional" / "optimized" entry of `result`
Measurement(tokens, time, cost) ==
    [tokens |-> tokens, time |-> time, cost |-> cost]

\* SearchBenchmark.__init__: self.results
EmptyResults == [traditional |-> <<>>, optimized |-> <<>>, summary |-> {}]

StoreResult_Overwrite(res, trad, opt) ==
    [res EXCEPT !.traditional = <<trad>>, !.optimized = <<opt>>]

\* self.results["traditional"].append(...); self.results["optimized"].append(...)
StoreResult(res, trad, opt) ==
    [res EXCEPT !.traditional = Append(@, trad), !.optimized = Append(@, opt)]

\* The body of one iteration of `for query in queries`, given what the two
\* external calls did.  raised: an exception left the iteration.
MeasureOne(query, env) ==
    LET t == run_traditional_grep(env.trad, env.trad_elapsed, env.stdout)
        trad_cost == calculate_cost(t.tokens)
        o == run_optimized_search(env.opt, env.opt_elapsed,
                                  WithContext(env.stdout), query.type)
        opt_cost == calculate_cost(o.tokens)
    IN  [raised |-> t.raised \/ o.raised,
         traditional |-> Measurement(t.tokens, t.time, trad_cost),
         optimized |-> Measurement(o.tokens, o.time, opt_cost),
         improvements |->
             [token_reduction |-> token_reduction(t.tokens, o.tokens),
              time_improvement |-> time_improvement(t.time, o.time),
              cost_savings |-> trad_cost - opt_cost]]

\* generate_summary up to its call of save_results: "no_results" (the early
\* return), "ZeroDivisionError", or the overall percentages it prints.
generate_summary(res) ==
    IF res.traditional = <<>> THEN [outcome |-> "no_results"]
    ELSE LET avg_trad_tokens == mean(Field(res.traditional, "tokens"))
             avg_opt_tokens == mean(Field(res.optimized, "tokens"))
             avg_trad_time == mean(Field(res.traditional, "time"))
             avg_opt_time == mean(Field(res.optimized, "time"))
             avg_trad_cost == mean(Field(res.traditional, "cost"))
             avg_opt_cost == mean(Field(res.optimized, "cost"))
         IN  IF avg_trad_tokens.n = 0 \/ avg_trad_time.n = 0 \/ avg_trad_cost.n = 0
             THEN [outcome |-> "ZeroDivisionError"]
             ELSE [outcome |-> "printed",
                   token_reduction |->
                       overall_reduction(avg_trad_tokens, avg_opt_tokens),
                   time_improvement |->
                       overall_reduction(avg_trad_time, avg_opt_time),
                   cost_reduction |->
                       overall_reduction(avg_trad_cost, avg_opt_cost)]

\* json.dump(self.results, f, indent=2)
json_dump(res) ==
    [traditional |-> res.traditional, optimized |-> res.optimized,
     summary |-> res.summary]

\* json.load(f)
load_results(doc) == doc

(***************************************************************************)
(* The catalog and the environment of one run.                             *)
(***************************************************************************)
QueryType(i) ==
    CASE i <= 3 -> "class"
      [] i <= 6 -> "function"
      [] i = 7 -> "comment"
      [] i = 8 -> "import"
      [] i = 9 -> "hook"
      [] i = 10 -> "error_handling"
      [] OTHER -> "api"

TEST_QUERIES == [i \in 1..CatalogLen |-> [description |-> i, type |-> QueryType(i)]]

\* TEST_QUERIES[:5]
QuickQueries == SubSeq(TEST_QUERIES, 1, Min(QUICK_COUNT, Len(TEST_QUERIES)))

Calls == {"ok", "timeout", "error"}

\* What the search prints for a query of a whole batch: nothing but the
\* summary record, or one match in a.py.
NoMatchOutput == <<Other>>
OneMatchOutput == <<Other, Ln("match", "a.py", 3, 3), Other, Other>>
BatchOutputs == {NoMatchOutput, OneMatchOutput}

\* Wall-clock seconds of a call that returns
TradElapsed == {2}
OptElapsed == {1}

QueryEnvs ==
    [trad : Calls, opt : Calls, stdout : BatchOutputs,
     trad_elapsed : TradElapsed, opt_elapsed : OptElapsed]

\* The lines the output of a one-query run is made of
LineAlphabet ==
    {Blank, Garbage, Other,
     Ln("match", "a.py", 3, 3), Ln("match", "a.py", 7, 1),
     Ln("match", "b.py", 1, 2), Ln("match", "gone.py", 1, 2),
     Ln("match", "locked.py", 1, 2),
     Ln("match_bytes_path", "", 1, 2), Ln("match_bytes_lines", "a.py", 9, 0)}

\* n matches in a.py, on the lines 1..n
ManyMatches(n) == [i \in 1..n |-> Ln("match", "a.py", i, 1)]

SingleQueryOutputs ==
    UNION {[1..n -> LineAlphabet] : n \in 0..MaxLines}
    \cup {ManyMatches(n) : n \in (SYMBOL_LIMIT - 1)..(SYMBOL_LIMIT + 1)}

SingleQueryEnvs ==
    [trad : Calls, opt : Calls, stdout : SingleQueryOutputs,
     trad_elapsed : TradElapsed, opt_elapsed : OptElapsed]

FaultsOf(env) ==
    (IF env.trad = "ok" THEN 0 ELSE 1) + (IF env.opt = "ok" THEN 0 ELSE 1)

RECURSIVE Faults(_)
Faults(log) == IF log = <<>> THEN 0 ELSE FaultsOf(Head(log).env) + Faults(Tail(log))

(***************************************************************************)
(* The result files the reporting script can be pointed at: any sequence   *)
(* of 1..MaxDocLen measured queries, whatever the external calls did.      *)
(***************************************************************************)
MeasuredPairs ==
    {[traditional |-> MeasureOne(TEST_QUERIES[1], e).traditional,
      optimized |-> MeasureOne(TEST_QUERIES[1], e).optimized] : e \in QueryEnvs}

DocOf(pairs) ==
    [traditional |-> [i \in 1..Len(pairs) |-> pairs[i].traditional],
     optimized |-> [i \in 1..Len(pairs) |-> pairs[i].optimized],
     summary |-> {}]

ResultDocs ==
    UNION {{DocOf(ps) : ps \in [1..n -> MeasuredPairs]} : n \in 1..MaxDocLen}

\* The result files the chart routines are called on one by one: those of
\* the batches whose exhaustive calls all returned and whose indexed calls
\* returned or timed out.
RoutinePairs ==
    {[traditional |-> MeasureOne(TEST_QUERIES[1], e).traditional,
      optimized |-> MeasureOne(TEST_QUERIES[1], e).optimized] :
        e \in {q \in QueryEnvs : q.trad = "ok" /\ q.opt \in {"ok", "timeout"}}}

RoutineDocs ==
    UNION {{DocOf(ps) : ps \in [1..n -> RoutinePairs]} : n \in 1..MaxDocLen}

(***************************************************************************)
(* Initial states: one run of one of the two scripts.                      *)
(***************************************************************************)
NoArgs == [recommend |-> FALSE, repo_path |-> "", quick |-> FALSE]

InitBenchmark ==
    /\ script = "benchmark"
    /\ args \in [recommend : BOOLEAN, repo_path : {"", "missing", "repo"},
                 quick : BOOLEAN]
    /\ rg_installed \in BOOLEAN
    /\ pc = "check_recommend"
    /\ disk = <<>>
    /\ argv = "none"
    /\ vpc = "idle"

InitVisualize ==
    /\ script = "visualize"
    /\ args = NoArgs
    /\ rg_installed = TRUE
    /\ pc = "idle"
    /\ disk \in {<<>>} \cup {<<d>> : d \in ResultDocs}
    /\ argv \in {"none", "missing", "saved"}
    /\ vpc = "check_args"

\* benchmark = SearchBenchmark(path); benchmark.run_benchmark([query]);
\* benchmark.generate_summary()
InitSingleQuery ==
    /\ script = "single_query"
    /\ args = NoArgs
    /\ rg_installed = TRUE
    /\ pc = "construct_single"
    /\ disk = <<>>
    /\ argv = "none"
    /\ vpc = "idle"

\* output_dir.mkdir(exist_ok=True); results = load_results(results_file);
\* then calls of the chart routines on (results, output_dir)
InitChartRoutines ==
    /\ script = "chart_routines"
    /\ args = NoArgs
    /\ rg_installed = TRUE
    /\ pc = "idle"
    /\ disk \in {<<d>> : d \in RoutineDocs}
    /\ argv = "saved"
    /\ vpc = "load_for_routines"

Init ==
    /\ InitBenchmark \/ InitVisualize \/ InitSingleQuery \/ InitChartRoutines
    /\ reported = "nothing"
    /\ probed = FALSE
    /\ queries = <<>>
    /\ results = EmptyResults
    /\ improvements = <<>>
    /\ rgCalls = <<>>
    /\ overall = "nothing"
    /\ output_dir = FALSE
    /\ loaded = "nothing"
    /\ charts = <<>>
    /\ chartImprovements = <<>>
    /\ pyplot = <<>>
    /\ chartCalls = <<>>

(***************************************************************************)
(* benchmark-search-methods.py: main()                                     *)
(***************************************************************************)
\* if args.recommend: ...; return
CheckRecommend ==
    /\ pc = "check_recommend"
    /\ IF args.recommend
       THEN pc' = "exit" /\ reported' = "recommend"
       ELSE pc' = "check_path_given" /\ UNCHANGED reported
    /\ UNCHANGED <<script, args, rg_installed, probed, batchVars, visVars>>

\* if not args.repo_path: ...; return
CheckPathGiven ==
    /\ pc = "check_path_given"
    /\ IF args.repo_path = ""
       THEN pc' = "exit" /\ reported' = "no_path_given"
       ELSE pc' = "check_path_exists" /\ UNCHANGED reported
    /\ UNCHANGED <<script, args, rg_installed, probed, batchVars, visVars>>

CheckPathExists_Skipped ==
    /\ pc = "check_path_exists"
    /\ pc' = "probe_rg"
    /\ UNCHANGED <<script, args, rg_installed, probed, reported, batchVars, visVars>>

\* if not repo_path.exists(): ...; return
CheckPathExists ==
    /\ pc = "check_path_exists"
    /\ IF args.repo_path = "missing"
       THEN pc' = "exit" /\ reported' = "path_does_not_exist"
       ELSE pc' = "probe_rg" /\ UNCHANGED reported
    /\ UNCHANGED <<script, args, rg_installed, probed, batchVars, visVars>>

\* try: subprocess.run(["rg", "--version"], ..., check=True) except: ...; return
ProbeRg ==
    /\ pc = "probe_rg"
    /\ probed' = TRUE
    /\ IF rg_installed
       THEN pc' = "construct" /\ UNCHANGED reported
       ELSE pc' = "exit" /\ reported' = "rg_required"
    /\ UNCHANGED <<script, args, rg_installed, batchVars, visVars>>

\* benchmark = SearchBenchmark(repo_path); queries = TEST_QUERIES[:5] or TEST_QUERIES
Construct ==
    /\ pc = "construct"
    /\ results' = EmptyResults
    /\ queries' = IF args.quick THEN QuickQueries ELSE TEST_QUERIES
    /\ pc' = "run_benchmark"
    /\ UNCHANGED <<script, args, rg_installed, probed, reported, improvements,
                   rgCalls, overall, disk, visVars>>

\* benchmark = SearchBenchmark(path), to be run on one query of the catalog
ConstructSingle ==
    /\ pc = "construct_single"
    /\ results' = EmptyResults
    /\ \E i \in {1, CatalogLen} : queries' = <<TEST_QUERIES[i]>>
    /\ pc' = "run_benchmark"
    /\ UNCHANGED <<script, args, rg_installed, probed, reported, improvements,
                   rgCalls, overall, disk, visVars>>

\* What the two external calls of the next iteration can do.  In a whole
\* batch the fault budget bounds the timeouts and exceptions of the run.
EnvChoices ==
    IF script = "single_query" THEN SingleQueryEnvs
    ELSE {e \in QueryEnvs : Faults(rgCalls) + FaultsOf(e) <= MaxFaults}

\* One iteration of `for query in queries` in run_benchmark
MeasureQuery ==
    /\ pc = "run_benchmark"
    /\ Len(rgCalls) < Len(queries)
    /\ \E env \in EnvChoices :
         /\ LET query == queries[Len(rgCalls) + 1]
                m == MeasureOne(query, env)
            IN  /\ rgCalls' = Append(rgCalls, [query |-> query, env |-> env])
                /\ IF m.raised
                   THEN /\ pc' = "raised_in_run_benchmark"
                        /\ UNCHANGED <<results, improvements>>
                   ELSE /\ results' = StoreResult(results, m.traditional, m.optimized)
                        /\ improvements' = Append(improvements, m.improvements)
                        /\ UNCHANGED pc
    /\ UNCHANGED <<script, args, rg_installed, probed, reported, queries,
                   overall, disk, visVars>>

\* benchmark.generate_summary(), entered when run_benchmark has returned,
\* with the save_results() it ends with
GenerateSummary ==
    /\ pc = "run_benchmark"
    /\ Len(rgCalls) = Len(queries)
    /\ LET s == generate_summary(results)
       IN  CASE s.outcome = "no_results" ->
                  pc' = "done" /\ UNCHANGED <<overall, disk>>
             [] s.outcome = "ZeroDivisionError" ->
                  pc' = "raised_in_generate_summary" /\ UNCHANGED <<overall, disk>>
             [] OTHER ->
                  /\ overall' = s
                  /\ disk' = Append(disk, json_dump(results))
                  /\ pc' = "done"
    /\ UNCHANGED <<script, args, rg_installed, probed, reported, queries,
                   results, improvements, rgCalls, visVars>>

(***************************************************************************)
(* visualize-benchmark-results.py                                          *)
(***************************************************************************)
\* zip(results['traditional'], results['optimized'])
Zip(res) ==
    [i \in 1..Min(Len(res.traditional), Len(res.optimized)) |->
        [trad |-> res.traditional[i], opt |-> res.optimized[i]]]

\* create_token_comparison_chart: the name of the image, or the exception
create_token_comparison_chart(res) ==
    LET trad_tokens == [i \in 1..Len(Zip(res)) |-> Zip(res)[i].trad.tokens]
    IN  IF Len(trad_tokens) = 0 \/ Sum(trad_tokens) = 0
        THEN "ZeroDivisionError" ELSE "token_comparison.png"

\* create_cost_savings_chart
create_cost_savings_chart(res) ==
    IF Len(res.traditional) = 0 \/ Len(res.optimized) = 0
    THEN "ZeroDivisionError" ELSE "cost_savings.png"

\* create_performance_chart: the entry of `improvements` for one query
chart_improvement(trad, opt) ==
    IF trad.time > 0
    THEN Rat((trad.time - opt.time) * 100, trad.time) ELSE Rat(0, 1)

chart_improvements(res) ==
    [i \in 1..Len(Zip(res)) |-> chart_improvement(Zip(res)[i].trad, Zip(res)[i].opt)]

\* create_performance_chart: max(improvements) raises on the empty list
create_performance_chart(res) ==
    IF Len(Zip(res)) = 0 THEN "ValueError" ELSE "performance_improvement.png"

\* create_summary_infographic
create_summary_infographic(res) ==
    IF \/ Len(res.traditional) = 0 \/ Len(res.optimized) = 0
       \/ Sum(Field(res.traditional, "tokens")) = 0
       \/ Sum(Field(res.traditional, "time")) = 0
       \/ Sum(Field(res.traditional, "cost")) = 0
    THEN "ZeroDivisionError" ELSE "summary_infographic.png"

Images == {"token_comparison.png", "cost_savings.png",
           "performance_improvement.png", "summary_infographic.png"}

(***************************************************************************)
(* matplotlib.pyplot: the open figures, the last one being current.  A     *)
(* figure is the sequence of what was drawn on it.                         *)
(***************************************************************************)
\* plt.gcf(): the current figure, created when there is none
plt_gcf(figs) == IF figs = <<>> THEN <<<<>>>> ELSE figs

\* A routine that draws on the current figure instead of a new one.
plt_subplots_Reuse(figs) == plt_gcf(figs)

\* fig, ax = plt.subplots(...) / fig = plt.figure(...): a new, empty figure
\* becomes the current one
plt_subplots(figs) == Append(figs, <<>>)

\* ax.bar(...), ax.text(...), plt.text(...): drawn on the current figure
plt_draw(figs, drawing) ==
    LET f == plt_gcf(figs) IN [f EXCEPT ![Len(f)] = Append(@, drawing)]

\* plt.savefig(output_path, ...): the image of the current figure
plt_savefig(figs) == plt_gcf(figs)[Len(plt_gcf(figs))]

\* plt.close(): the current figure is closed
plt_close(figs) == IF figs = <<>> THEN <<>> ELSE SubSeq(figs, 1, Len(figs) - 1)

Routines == {"token_chart", "cost_chart", "performance_chart",
             "summary_infographic"}

\* What the call of routine r on the result set returns (its image) or raises
chart_outcome(r, res) ==
    CASE r = "token_chart" -> create_token_comparison_chart(res)
      [] r = "cost_chart" -> create_cost_savings_chart(res)
      [] r = "performance_chart" -> create_performance_chart(res)
      [] OTHER -> create_summary_infographic(res)

\* The numbers routine r draws, all of them computed from the result set
chart_data(r, res) ==
    CASE r = "token_chart" ->
             [i \in 1..Len(Zip(res)) |-> Zip(res)[i].trad.tokens]
             \o [i \in 1..Len(Zip(res)) |-> Zip(res)[i].opt.tokens]
      [] r = "cost_chart" ->
             <<Sum(Field(res.traditional, "cost")), Len(res.traditional),
               Sum(Field(res.optimized, "cost")), Len(res.optimized)>>
      [] r = "performance_chart" -> chart_improvements(res)
      [] OTHER ->
             <<Sum(Field(res.traditional, "tokens")), Sum(Field(res.optimized, "tokens")),
               Sum(Field(res.traditional, "time")), Sum(Field(res.optimized, "time")),
               Sum(Field(res.traditional, "cost")), Sum(Field(res.optimized, "cost"))>>

\* Does routine r create its figure before the statement that can raise:
\* plt.subplots precedes the division of the token chart and max() of the
\* performance chart; the other two compute their averages first.
FigureBeforeRaise(r) == r \in {"token_chart", "performance_chart"}

\* One call of routine r with outcome `image`: a new figure, the drawing,
\* savefig and close; a routine that raises after it created its figure
\* leaves that figure open.
draw_chart(r, image, res, figs) ==
    LET opened == plt_subplots(figs)
    IN  IF image \in Images
        THEN LET drawn == plt_draw(opened, [routine |-> r, data |-> chart_data(r, res)])
             IN  [content |-> plt_savefig(drawn), pyplot |-> plt_close(drawn)]
        ELSE [content |-> <<>>,
              pyplot |-> IF FigureBeforeRaise(r)
                         THEN plt_draw(opened, [routine |-> r, data |-> <<>>])
                         ELSE figs]

\* results_file.exists()
ResultsFileExists == argv = "saved" /\ disk # <<>>

\* if len(sys.argv) < 2: ...; return
VisCheckArgs ==
    /\ vpc = "check_args"
    /\ IF argv = "none"
       THEN vpc' = "exit" /\ reported' = "usage"
       ELSE vpc' = "check_exists" /\ UNCHANGED reported
    /\ UNCHANGED <<script, argv, output_dir, loaded, charts, chartImprovements,
                   pyplot, chartCalls, benchVars>>

\* if not results_file.exists(): ...; return
VisCheckExists ==
    /\ vpc = "check_exists"
    /\ IF ResultsFileExists
       THEN vpc' = "mkdir" /\ UNCHANGED reported
       ELSE vpc' = "exit" /\ reported' = "results_file_not_found"
    /\ UNCHANGED <<script, argv, output_dir, loaded, charts, chartImprovements,
                   pyplot, chartCalls, benchVars>>

\* output_dir.mkdir(exist_ok=True)
VisMkdir ==
    /\ vpc = "mkdir"
    /\ output_dir' = TRUE
    /\ vpc' = "load"
    /\ UNCHANGED <<script, argv, reported, loaded, charts, chartImprovements,
                   pyplot, chartCalls, benchVars>>

\* results = load_results(results_file); a missing file raises
VisLoad ==
    /\ vpc = "load"
    /\ IF ResultsFileExists
       THEN loaded' = load_results(disk[Len(disk)]) /\ vpc' = "token_chart"
       ELSE UNCHANGED loaded /\ vpc' = "raised_in_load_results"
    /\ UNCHANGED <<script, argv, reported, output_dir, charts, chartImprovements,
                   pyplot, chartCalls, benchVars>>

\* One chart routine called from main(): the image is written, or the
\* exception leaves main()
ChartStep(here, image, next) ==
    /\ vpc = here
    /\ IF image \in Images
       THEN charts' = Append(charts, image) /\ vpc' = next
       ELSE UNCHANGED charts /\ vpc' = "raised_in_" \o here
    /\ pyplot' = draw_chart(here, image, loaded, pyplot).pyplot
    /\ chartCalls' = Append(chartCalls,
           [routine |-> here, outcome |-> image,
            content |-> draw_chart(here, image, loaded, pyplot).content])
    /\ UNCHANGED <<script, argv, reported, output_dir, loaded, benchVars>>

ChartTokens ==
    /\ ChartStep("token_chart", create_token_comparison_chart(loaded), "cost_chart")
    /\ UNCHANGED chartImprovements

ChartCost ==
    /\ ChartStep("cost_chart", create_cost_savings_chart(loaded), "performance_chart")
    /\ UNCHANGED chartImprovements

ChartPerformance ==
    /\ ChartStep("performance_chart", create_performance_chart(loaded),
                 "summary_infographic")
    /\ chartImprovements' = chart_improvements(loaded)

ChartInfographic ==
    /\ ChartStep("summary_infographic", create_summary_infographic(loaded), "print")
    /\ UNCHANGED chartImprovements

\* The closing prints of main()
VisFinish ==
    /\ vpc = "print"
    /\ vpc' = "done"
    /\ UNCHANGED <<script, argv, reported, output_dir, loaded, charts,
                   chartImprovements, pyplot, chartCalls, benchVars>>

\* output_dir.mkdir(exist_ok=True); results = load_results(results_file),
\* by a caller that goes on to call the chart routines itself
LoadForRoutines ==
    /\ vpc = "load_for_routines"
    /\ output_dir' = TRUE
    /\ loaded' = load_results(disk[Len(disk)])
    /\ vpc' = "routines"
    /\ UNCHANGED <<script, argv, reported, charts, chartImprovements, pyplot,
                   chartCalls, benchVars>>

\* One of the four routines is called on (results, output_dir); the caller
\* catches what it raises and calls each routine at most once
CallChartRoutine ==
    /\ vpc = "routines"
    /\ \E r \in Routines :
         /\ \A k \in 1..Len(chartCalls) : chartCalls[k].routine # r
         /\ LET image == chart_outcome(r, loaded)
                run == draw_chart(r, image, loaded, pyplot)
            IN  /\ pyplot' = run.pyplot
                /\ chartCalls' = Append(chartCalls,
                       [routine |-> r, outcome |-> image, content |-> run.content])
                /\ charts' = IF image \in Images THEN Append(charts, image) ELSE charts
                /\ chartImprovements' = IF r = "performance_chart"
                                        THEN chart_improvements(loaded)
                                        ELSE chartImprovements
    /\ UNCHANGED <<script, argv, reported, vpc, output_dir, loaded, benchVars>>

(***************************************************************************)
(* The specification.                                                      *)
(***************************************************************************)
Next ==
    \/ CheckRecommend
    \/ CheckPathGiven
    \/ CheckPathExists
    \/ ProbeRg
    \/ Construct
    \/ ConstructSingle
    \/ MeasureQuery
    \/ GenerateSummary
    \/ VisCheckArgs
    \/ VisCheckExists
    \/ VisMkdir
    \/ VisLoad
    \/ ChartTokens
    \/ ChartCost
    \/ ChartPerformance
    \/ ChartInfographic
    \/ VisFinish
    \/ LoadForRoutines
    \/ CallChartRoutine

Spec == Init /\ [][Next]_vars

(***************************************************************************)
(* Properties.                                                             *)
(***************************************************************************)
\* run_benchmark has been entered and the run is over
BatchEnded ==
    pc \in {"done", "raised_in_run_benchmark", "raised_in_generate_summary"}

\* run_benchmark has returned
BatchReturned == pc \in {"done", "raised_in_generate_summary"}

\* C1: a quick-mode run of the benchmark script ends with exactly 5 entries
\* in results['traditional'], exactly 5 in results['optimized'] and a
\* non-empty results['summary'].
C1_QuickRunResult ==
    (script = "benchmark" /\ args.quick /\ BatchEnded) =>
        /\ Len(results.traditional) = QUICK_COUNT
        /\ Len(results.optimized) = QUICK_COUNT
        /\ results.summary # {}

\* C2: whatever the external calls and the parsing of their output do, no
\* exception leaves a query's measurement, and when run_benchmark has
\* returned both result lists hold one measurement per query, the i-th one
\* being the measurement of the i-th query.
C2_BatchCompletes ==
    /\ pc # "raised_in_run_benchmark"
    /\ BatchReturned =>
         /\ Len(results.traditional) = Len(queries)
         /\ Len(results.optimized) = Len(queries)
         /\ Len(rgCalls) = Len(queries)
         /\ \A i \in 1..Len(queries) :
              /\ rgCalls[i].query = queries[i]
              /\ results.traditional[i] =
                     MeasureOne(queries[i], rgCalls[i].env).traditional
              /\ results.optimized[i] =
                     MeasureOne(queries[i], rgCalls[i].env).optimized

\* A whole catalog has been measured although an external call timed out or
\* raised on the way.
C2_Witness ==
    /\ script = "benchmark"
    /\ BatchReturned
    /\ Len(queries) = CatalogLen
    /\ Len(results.traditional) = CatalogLen
    /\ Faults(rgCalls) > 0

\* C3: a call that exceeds its limit is recorded with tokens 0, the limit
\* of its strategy (30 resp. 10) as elapsed time and cost 0, and the batch
\* goes on to the next query.
C3_TimeoutMeasurement ==
    \A i \in 1..Len(rgCalls) :
        /\ rgCalls[i].env.trad = "timeout" =>
             /\ i <= Len(results.traditional)
             /\ results.traditional[i] = Measurement(0, TRAD_TIMEOUT, 0)
        /\ rgCalls[i].env.opt = "timeout" =>
             /\ i <= Len(results.optimized)
             /\ results.optimized[i] = Measurement(0, OPT_TIMEOUT, 0)
        /\ ("timeout" \in {rgCalls[i].env.trad, rgCalls[i].env.opt}
              /\ i = Len(rgCalls) /\ i < Len(queries)) =>
             (pc = "run_benchmark" /\ ENABLED MeasureQuery)

\* The indexed strategy's call of a query timed out and a later query has
\* been measured.
C3_Witness ==
    \E i \in 1..Len(rgCalls) :
        /\ rgCalls[i].env.opt = "timeout"
        /\ i < Len(results.optimized)

\* C4: on a non-empty batch generate_summary completes, save included, and
\* where the traditional average of a metric is 0 the overall percentage
\* of that metric is 0.
C4_SummaryGuarded ==
    (BatchReturned /\ results.traditional # <<>>) =>
        /\ pc = "done"
        /\ Len(disk) = 1
        /\ overall # "nothing"
        /\ Sum(Field(results.traditional, "tokens")) = 0 =>
               overall.token_reduction.n = 0
        /\ Sum(Field(results.traditional, "time")) = 0 =>
               overall.time_improvement.n = 0
        /\ Sum(Field(results.traditional, "cost")) = 0 =>
               overall.cost_reduction.n = 0

\* r is the percentage by which `after` lies below `before`: 0 when before
\* is 0, (before - after) / before * 100 otherwise
IsPercentage(r, before, after) ==
    /\ r.d # 0
    /\ IF before = 0 THEN r.n = 0
       ELSE r.n * before = (before - after) * 100 * r.d

\* C5: the token reduction and the time improvement printed for a query,
\* and the speed improvement the performance chart computes for it from the
\* stored times, are 0 when the traditional value is 0 and
\* (traditional - optimized) / traditional * 100 otherwise.
C5_PercentageRule ==
    /\ \A i \in 1..Len(improvements) :
         /\ IsPercentage(improvements[i].token_reduction,
                         results.traditional[i].tokens, results.optimized[i].tokens)
         /\ IsPercentage(improvements[i].time_improvement,
                         results.traditional[i].time, results.optimized[i].time)
    /\ Len(improvements) = Len(results.traditional)
    /\ \A i \in 1..Len(chartImprovements) :
         IsPercentage(chartImprovements[i],
                      loaded.traditional[i].time, loaded.optimized[i].time)
    /\ chartImprovements # <<>> => Len(chartImprovements) = Len(loaded.traditional)

\* The performance chart has been computed from a file in which one query
\* has traditional time 0 and another a positive one.
C5_Witness ==
    /\ Len(chartImprovements) >= 2
    /\ \E i, j \in 1..Len(chartImprovements) :
         /\ loaded.traditional[i].time = 0
         /\ loaded.traditional[j].time > 0
         /\ loaded.traditional[j].time # loaded.optimized[j].time

\* C6 as stated: for every recorded query the traditional token count is at
\* least the optimized one.
C6_TraditionalAtLeastOptimized ==
    \A i \in 1..Len(results.traditional) :
        results.traditional[i].tokens >= results.optimized[i].tokens

\* The search output has no match record with a text path and text lines
NoWellFormedMatch(stdout) == \A k \in 1..Len(stdout) : stdout[k].kind # "match"

\* C6, amended: for every recorded query whose indexed call timed out or
\* raised, or whose search output holds no well-formed match record, the
\* optimized token count is 0, so the traditional one is at least as large.
C6_OptimizedZeroWithoutMatch ==
    \A i \in 1..Len(results.optimized) :
        (rgCalls[i].env.opt # "ok" \/ NoWellFormedMatch(rgCalls[i].env.stdout)) =>
            /\ results.optimized[i].tokens = 0
            /\ results.traditional[i].tokens >= results.optimized[i].tokens

\* The indexed call returned output without a well-formed match, and the
\* traditional strategy still read a file.
C6_Witness ==
    \E i \in 1..Len(results.optimized) :
        /\ rgCalls[i].env.opt = "ok"
        /\ NoWellFormedMatch(rgCalls[i].env.stdout)
        /\ Len(rgCalls[i].env.stdout) > 1
        /\ results.optimized[i].tokens = 0
        /\ results.traditional[i].tokens > 0

\* The first check of main() that fails, in the order --recommend, path
\* given, path exists, search tool present
FirstFailingCheck ==
    IF args.recommend THEN "recommend"
    ELSE IF args.repo_path = "" THEN "no_path_given"
    ELSE IF args.repo_path = "missing" THEN "path_does_not_exist"
    ELSE IF ~rg_installed THEN "rg_required"
    ELSE "nothing"

\* C7: a run whose precondition fails aborts before any work.  Benchmark:
\* the checks are made in the order --recommend, path given, path exists,
\* search tool present; the first one that fails is the one reported, no
\* query is measured and no file is written.  Reporting: without an
\* existing results file no directory is created and no chart routine runs.
C7_PreconditionsAbort ==
    /\ script = "benchmark" =>
         /\ FirstFailingCheck # "nothing" =>
              /\ rgCalls = <<>> /\ disk = <<>> /\ results = EmptyResults
              /\ pc \in {"check_recommend", "check_path_given",
                         "check_path_exists", "probe_rg", "exit"}
         /\ pc = "exit" => reported = FirstFailingCheck
         /\ reported # "nothing" => (pc = "exit" /\ reported = FirstFailingCheck)
         /\ probed => (~args.recommend /\ args.repo_path = "repo")
    /\ (script = "visualize" /\ ~ResultsFileExists) =>
         /\ ~output_dir /\ charts = <<>> /\ loaded = "nothing"
         /\ chartImprovements = <<>>
         /\ vpc \in {"check_args", "check_exists", "exit"}
         /\ vpc = "exit" =>
              reported = IF argv = "none" THEN "usage" ELSE "results_file_not_found"

\* The version probe was run, failed, and the run ended there.
C7_Witness ==
    /\ script = "benchmark" /\ pc = "exit" /\ probed
    /\ reported = "rg_required"
    /\ rgCalls = <<>> /\ disk = <<>>

\* C8: a run that measured a non-empty query list has written exactly one
\* results file, holding the result set as it is at the end of the run,
\* with every query measured.
C8_OneFilePerRun ==
    (BatchEnded /\ Len(queries) > 0) =>
        /\ Len(disk) = 1
        /\ disk[1] = json_dump(results)
        /\ Len(results.traditional) = Len(queries)

\* Every measurement stored in the result set
Stored ==
    {results.traditional[i] : i \in 1..Len(results.traditional)}
    \cup {results.optimized[i] : i \in 1..Len(results.optimized)}

\* C9: calculate_cost(t) = (t / 1000) * TOKEN_PRICE_PER_1K for every token
\* count t, so the cost is 0 exactly when t is 0 and does not decrease with
\* t; and the cost of every stored measurement is that of its tokens.
C9_CostOfTokens ==
    /\ \A t \in 0..MaxTokens :
         /\ calculate_cost(t) * 1000 = t * TOKEN_PRICE_PER_1K
         /\ calculate_cost(t) = 0 <=> t = 0
         /\ t > 0 => calculate_cost(t) >= calculate_cost(t - 1)
    /\ \A m \in Stored :
         /\ m.cost * 1000 = m.tokens * TOKEN_PRICE_PER_1K
         /\ m.cost = calculate_cost(m.tokens)

\* A query is stored with a positive token count and cost for one strategy
\* and zero tokens and cost for the other.
C9_Witness ==
    \E i \in 1..Len(results.traditional) :
        /\ results.traditional[i].tokens > 0
        /\ results.traditional[i].cost > 0
        /\ results.optimized[i].tokens = 0
        /\ results.optimized[i].cost = 0

\* s is an initial part of t
IsPrefix(s, t) == Len(s) <= Len(t) /\ \A i \in 1..Len(s) : s[i] = t[i]

\* C10: between the iterations both lists have the same length, their i-th
\* entries are the measurements of the i-th query processed, and a step
\* only appends: what was stored stays where it is, unchanged.
C10_AppendOnly ==
    /\ [](/\ Len(results.traditional) = Len(results.optimized)
          /\ Len(results.traditional) <= Len(rgCalls)
          /\ \A i \in 1..Len(results.traditional) :
               /\ rgCalls[i].query = queries[i]
               /\ results.traditional[i] =
                      MeasureOne(queries[i], rgCalls[i].env).traditional
               /\ results.optimized[i] =
                      MeasureOne(queries[i], rgCalls[i].env).optimized)
    /\ [][/\ IsPrefix(results.traditional, results'.traditional)
          /\ IsPrefix(results.optimized, results'.optimized)
          /\ Len(results'.traditional) <= Len(results.traditional) + 1]_vars

\* Between two iterations of a batch, with two different measurements stored.
C10_Witness ==
    /\ pc = "run_benchmark"
    /\ Len(results.traditional) >= 2
    /\ Len(results.traditional) < Len(queries)
    /\ results.traditional[1] # results.traditional[2]

\* C11: every measurement stored in the result set, whether its external
\* call returned, timed out or raised, has tokens >= 0, elapsed time >= 0
\* and cost >= 0.
C11_NonNegative ==
    \A i \in 1..Len(results.traditional) :
        /\ rgCalls[i].env.trad \in Calls /\ rgCalls[i].env.opt \in Calls
        /\ results.traditional[i].tokens >= 0
        /\ results.traditional[i].time >= 0
        /\ results.traditional[i].cost >= 0
        /\ results.optimized[i].tokens >= 0
        /\ results.optimized[i].time >= 0
        /\ results.optimized[i].cost >= 0

\* A batch holds the measurements of a query whose exhaustive call raised
\* and of a query both of whose calls returned and found something.
C11_Witness ==
    \E i, j \in 1..Len(results.traditional) :
        /\ rgCalls[i].env.trad = "error"
        /\ results.traditional[i] = Measurement(0, 0, 0)
        /\ rgCalls[j].env.trad = "ok" /\ rgCalls[j].env.opt = "ok"
        /\ results.traditional[j].tokens > 0
        /\ results.optimized[j].tokens > 0

\* C12: a reporting run on an existing results file saved by the measurement
\* script, whatever result set it holds (zero traditional averages
\* included), raises nothing and ends with the output directory created and
\* the four images token_comparison.png, cost_savings.png,
\* performance_improvement.png and summary_infographic.png written.
C12_AllImagesWritten ==
    (script = "visualize" /\ ResultsFileExists) =>
        /\ vpc \in {"check_args", "check_exists", "mkdir", "load", "token_chart",
                     "cost_chart", "performance_chart", "summary_infographic",
                     "print", "done"}
        /\ vpc = "done" =>
              /\ output_dir
              /\ charts = <<"token_comparison.png", "cost_savings.png",
                            "performance_improvement.png",
                            "summary_infographic.png">>

\* C13: the chart routines leave the loaded result set as it was loaded,
\* and what a routine returns or raises and the image it saves are
\* determined by the result set alone: they are the same whichever of the
\* other routines ran before it, in whatever order, and whether these
\* returned or raised.
C13_RoutinesIndependent ==
    /\ chartCalls # <<>> => (disk # <<>> /\ loaded = load_results(disk[Len(disk)]))
    /\ \A k \in 1..Len(chartCalls) :
         /\ chartCalls[k].outcome = chart_outcome(chartCalls[k].routine, loaded)
         /\ chartCalls[k].outcome \in Images =>
              /\ Len(chartCalls[k].content) = 1
              /\ chartCalls[k].content[1].routine = chartCalls[k].routine
              /\ chartCalls[k].content[1].data =
                     chart_data(chartCalls[k].routine, loaded)

\* The routines were called in another order than main() calls them: the
\* performance chart first, then the token chart, which raised and left
\* its figure open, then the cost chart, which saved its image.
C13_Witness ==
    /\ script = "chart_routines"
    /\ Len(chartCalls) >= 3
    /\ chartCalls[1].routine = "performance_chart"
    /\ chartCalls[1].outcome \in Images
    /\ chartCalls[2].routine = "token_chart"
    /\ chartCalls[2].outcome \notin Images
    /\ chartCalls[3].routine = "cost_chart"
    /\ chartCalls[3].outcome \in Images
    /\ pyplot # <<>>

\* A match record that names its file as text
IsFileMatch(line) == line.kind \in {"match", "match_bytes_lines"}

\* A match record gives its path as bytes
HasBytesPath(stdout) ==
    \E k \in 1..Len(stdout) : stdout[k].kind = "match_bytes_path"

\* The positions of the search output at which a file is matched for the
\* first time
FirstMatches(stdout) ==
    {k \in 1..Len(stdout) :
        /\ IsFileMatch(stdout[k])
        /\ \A j \in 1..(k - 1) :
             ~(IsFileMatch(stdout[j]) /\ stdout[j].path = stdout[k].path)}

\* The elements of a finite set of numbers, in increasing order
RECURSIVE Ascending(_)
Ascending(S) ==
    IF S = {} THEN <<>>
    ELSE LET least == CHOOSE x \in S : \A y \in S : x <= y
         IN  <<least>> \o Ascending(S \ {least})

\* One block per distinct matched file that exists and can be read, in the
\* order in which the files are first matched
ExpectedBlocks(stdout) ==
    LET firsts == Ascending(FirstMatches(stdout))
        Contributes(k) == Exists(stdout[k].path) /\ Readable(stdout[k].path)
        kept == SelectSeq(firsts, Contributes)
    IN  [n \in 1..Len(kept) |-> FileBlock(stdout[kept[n]].path)]

\* C14 as stated: whatever records the search emits, the text of the
\* exhaustive strategy is made of the full content of each distinct matched
\* file that exists and is readable, once, and of nothing else.
C14_EachFileOnce ==
    \A i \in 1..Len(results.traditional) :
        rgCalls[i].env.trad = "ok" =>
            results.traditional[i].tokens =
                count_tokens(Join(<<"\n">>, ExpectedBlocks(rgCalls[i].env.stdout)))

\* C14, amended: when every match record of the search output gives its
\* path as text, the text of the exhaustive strategy is made of the full
\* content of each distinct matched file that exists and is readable, once
\* however many matches the file has, and of nothing else (files that are
\* missing or unreadable, non-match records and lines that are not JSON
\* contribute nothing); when a match record gives its path as bytes the
\* strategy returns its error result, with 0 tokens.
C14_EachReadableFileOnce ==
    \A i \in 1..Len(results.traditional) :
        rgCalls[i].env.trad = "ok" =>
            LET stdout == rgCalls[i].env.stdout
                scan == TraditionalLoop(output_lines(stdout),
                            [raised |-> FALSE, total_content |-> <<>>,
                             files_seen |-> {}])
            IN  IF HasBytesPath(stdout)
                THEN /\ scan.raised
                     /\ results.traditional[i] = Measurement(0, 0, 0)
                ELSE /\ ~scan.raised
                     /\ scan.total_content = ExpectedBlocks(stdout)
                     /\ results.traditional[i].tokens =
                            count_tokens(Join(<<"\n">>, ExpectedBlocks(stdout)))

\* The search reported two matches in a.py with a match in an unreadable
\* file between them, and the stored text is one block of a.py.
C14_Witness ==
    \E i \in 1..Len(results.traditional) :
        /\ rgCalls[i].env.trad = "ok"
        /\ rgCalls[i].env.stdout =
               <<Ln("match", "a.py", 3, 3), Ln("match", "locked.py", 1, 2),
                 Ln("match", "a.py", 7, 1)>>
        /\ results.traditional[i].tokens = count_tokens(FileBlock("a.py"))

\* A match record whose path and lines are both given as text
IsWellFormedMatch(line) == line.kind = "match"

\* C15: the formatted result of the indexed strategy holds exactly
\* min(50, number of well-formed match records) symbol records; they are
\* those of the first such records of the search output, in output order;
\* and the stored token count is that of these records joined by blank
\* lines (context records, malformed records and the records after the
\* 50th add nothing).
C15_FirstFiftySymbols ==
    \A i \in 1..Len(results.optimized) :
        rgCalls[i].env.opt = "ok" =>
            LET out == WithContext(rgCalls[i].env.stdout)
                matches == SelectSeq(out, IsWellFormedMatch)
                n == Min(SYMBOL_LIMIT, Len(matches))
                held == formatted_results(
                            OptimizedLoop(output_lines(out), rgCalls[i].query.type))
            IN  /\ Len(held) = n
                /\ \A k \in 1..n :
                     held[k] = <<rgCalls[i].query.type, "in", matches[k].path, ":",
                                 matches[k].line_number, "\n">>
                               \o Words(matches[k].tok)
                /\ results.optimized[i].tokens =
                       IF n = 0 THEN 0
                       ELSE Sum([k \in 1..n |-> 6 + matches[k].tok]) + (n - 1)

\* The search reported one match more than the limit, each with its
\* context record, and the stored count is that of 50 symbol records of 7
\* tokens and the 49 separators between them.
C15_Witness ==
    \E i \in 1..Len(results.optimized) :
        /\ rgCalls[i].env.opt = "ok"
        /\ rgCalls[i].env.stdout = ManyMatches(SYMBOL_LIMIT + 1)
        /\ results.optimized[i].tokens = SYMBOL_LIMIT * 7 + (SYMBOL_LIMIT - 1)

====
